---- MODULE Spec2Model ----
(***************************************************************************)
(* SEC filings pipeline: section classification, segmentation, metric      *)
(* extraction, chunk metadata, the vector store adapter (add_documents,    *)
(* search, _build_where_clause) and result post-processing                 *)
(* (_process_results).                                                     *)
(*                                                                         *)
(* Text is modelled as a sequence of one-character strings, so that        *)
(* slicing, splitting and regular-expression matching are computed         *)
(* character by character as Python computes them.                         *)
(***************************************************************************)
EXTENDS Integers, Sequences, FiniteSets, TLC

VARIABLES
    line,        \* _identify_section: the line handed to the classifier
    tag,         \* _identify_section: the tag it returned ("none" before the call)
    text,        \* _split_into_sections: the document text
    sections,    \* _split_into_sections: the (text, tag) spans it returned
    segDone,     \* whether _split_into_sections has run on `text`
    mtext,       \* _extract_metrics: the text scanned
    metrics,     \* _extract_metrics: the result dict
    mDone,       \* whether _extract_metrics has run on `mtext`
    filter,      \* _build_where_clause: filter_metadata (also as search passes it on)
    where,       \* _build_where_clause: the clause it returned
    whereDone,   \* whether _build_where_clause has run on `filter`
    op,          \* the last call on the store's read side: "idle", "search",
                 \* "search_error" (search raised), "process" (_process_results)
                 \* or "process_error" (_process_results raised)
    engineQuery, \* the number of collection.query calls the engine received and
                 \* the arguments of the last one
    raw,         \* the raw envelope handed to _process_results
    rawAfter,    \* that envelope object after the call (metadata is annotated in place)
    limit,       \* the limit argument
    out,         \* the envelope returned
    document,    \* process_document: the SECDocument
    chunks,      \* process_document: the chunk dicts it returned
    stage,       \* "idle", "processed" (process_document has returned), "added"
    batches,     \* add_documents: the lists it was called with, in call order
    addCalls,    \* the collection.add calls the engine received, in call order
    addStatus    \* the last add_documents call: "none", "ok" or "error" (the engine raised)

clsVars == <<line, tag>>
segVars == <<text, sections, segDone>>
metVars == <<mtext, metrics, mDone>>
whereVars == <<filter, where, whereDone>>
searchVars == <<op, engineQuery, raw, rawAfter, limit, out>>
procVars == <<document, chunks, stage>>
addVars == <<batches, addCalls, addStatus>>

vars == <<clsVars, segVars, metVars, whereVars, searchVars, procVars, addVars>>

(***************************************************************************)
(* Bounds of the model.                                                    *)
(***************************************************************************)
MaxLines == 3
MaxPhrases == 2
MaxTokens == 3
MaxFields == 2
MaxRaw == 4
MaxLimit == 2
MaxDocLines == 2
MaxChunks == 2
MaxBatch == 2
MaxAdds == 2

(***************************************************************************)
(* Characters.                                                             *)
(***************************************************************************)
Upper == <<"A","B","C","D","E","F","G","H","I","J","K","L","M",
           "N","O","P","Q","R","S","T","U","V","W","X","Y","Z">>
LowerCase == <<"a","b","c","d","e","f","g","h","i","j","k","l","m",
               "n","o","p","q","r","s","t","u","v","w","x","y","z">>
Digits == {"0","1","2","3","4","5","6","7","8","9"}

\* str.lower() / re.IGNORECASE on one character
Lower(c) ==
    IF \E k \in 1..26 : Upper[k] = c
    THEN LowerCase[CHOOSE k \in 1..26 : Upper[k] = c]
    ELSE c

\* the regular-expression class \s
IsSpace(c) == c \in {" ", "\t", "\n", "\r", "\f"}

\* the regular-expression class \d
IsDigit(c) == c \in Digits

\* the regular-expression class \w
IsWord(c) ==
    \/ IsDigit(c)
    \/ c = "_"
    \/ \E k \in 1..26 : Upper[k] = c \/ LowerCase[k] = c

Min(a, b) == IF a <= b THEN a ELSE b

\* c * n
Pad(c, n) == [k \in 1..n |-> c]

\* Python's s[:n]
Prefix(s, n) == SubSeq(s, 1, Min(n, Len(s)))

RECURSIVE Join(_, _)
\* sep.join(parts)
Join(parts, sep) ==
    IF Len(parts) = 0 THEN <<>>
    ELSE IF Len(parts) = 1 THEN parts[1]
    ELSE parts[1] \o sep \o Join(Tail(parts), sep)

\* the positions of s, in increasing order
Indices(s) == [k \in 1..Len(s) |-> k]

\* s.split(c): the pieces of s between the occurrences of the character c
SplitOn(s, c) ==
    LET at == SelectSeq(Indices(s), LAMBDA k : s[k] = c)
        cut == <<0>> \o at \o <<Len(s) + 1>>
    IN  [i \in 1..(Len(at) + 1) |-> SubSeq(s, cut[i] + 1, cut[i + 1] - 1)]

SplitLines(s) == SplitOn(s, "\n")

(***************************************************************************)
(* Regular expressions of the section table: a pattern is a sequence of    *)
(* atoms, a literal (matched ignoring case), \s* or an optional literal.   *)
(* Every \s* and optional literal of the table is followed by a literal    *)
(* that starts with another character, so the greedy match is the only     *)
(* one and no backtracking is needed.                                      *)
(***************************************************************************)
Lit(s) == [t |-> "lit", s |-> s]
Ws == [t |-> "ws", s |-> <<>>]
Opt(s) == [t |-> "opt", s |-> s]

\* the literal lit (lower case) stands at position i of s, ignoring case
LitAt(s, i, lit) ==
    /\ i + Len(lit) - 1 <= Len(s)
    /\ \A k \in 1..Len(lit) : Lower(s[i + k - 1]) = lit[k]

RECURSIVE SkipSpace(_, _)
\* the position after the longest run of \s starting at i
SkipSpace(s, i) ==
    IF i <= Len(s) /\ IsSpace(s[i]) THEN SkipSpace(s, i + 1) ELSE i

RECURSIVE MatchSeq(_, _, _, _)
\* the position after a match of atoms[k..] at position i of s; 0 when none
MatchSeq(s, i, atoms, k) ==
    IF k > Len(atoms) THEN i
    ELSE LET a == atoms[k] IN
         IF a.t = "lit"
         THEN IF LitAt(s, i, a.s) THEN MatchSeq(s, i + Len(a.s), atoms, k + 1) ELSE 0
         ELSE IF a.t = "ws"
         THEN MatchSeq(s, SkipSpace(s, i), atoms, k + 1)
         ELSE MatchSeq(s, IF LitAt(s, i, a.s) THEN i + Len(a.s) ELSE i, atoms, k + 1)

\* (prefix)?core matches at position i
MatchAt(pat, s, i) ==
    \/ LET j == MatchSeq(s, i, pat.prefix, 1) IN
       j # 0 /\ MatchSeq(s, j, pat.core, 1) # 0
    \/ MatchSeq(s, i, pat.core, 1) # 0

\* re.search(pattern, text, re.IGNORECASE) is not None
re_search(pat, s) == \E i \in 1..(Len(s) + 1) : MatchAt(pat, s, i)

W_item == <<"i","t","e","m">>
W_risk == <<"r","i","s","k">>
W_factors == <<"f","a","c","t","o","r","s">>
W_management == <<"m","a","n","a","g","e","m","e","n","t">>
W_discussion == <<"d","i","s","c","u","s","s","i","o","n">>
W_and == <<"a","n","d">>
W_analysis == <<"a","n","a","l","y","s","i","s">>
W_business == <<"b","u","s","i","n","e","s","s">>
W_financial == <<"f","i","n","a","n","c","i","a","l">>
W_statements == <<"s","t","a","t","e","m","e","n","t","s">>
W_quantitative == <<"q","u","a","n","t","i","t","a","t","i","v","e">>
W_qualitative == <<"q","u","a","l","i","t","a","t","i","v","e">>
W_disclosures == <<"d","i","s","c","l","o","s","u","r","e","s">>
W_about == <<"a","b","o","u","t">>
W_market == <<"m","a","r","k","e","t">>

\* (Item\s*<n>\.?\s*)
ItemPrefix(n) == <<Lit(W_item), Ws, Lit(n), Opt(<<".">>), Ws>>

\* self.section_patterns, in the dict's insertion order
section_patterns == <<
    [tag |-> "risk_factors",
     prefix |-> ItemPrefix(<<"1","a">>),
     core |-> <<Lit(W_risk), Ws, Lit(W_factors)>>],
    [tag |-> "mda",
     prefix |-> ItemPrefix(<<"7">>),
     core |-> <<Lit(W_management), Opt(<<"'">>), Opt(<<"s">>), Ws, Lit(W_discussion),
                Ws, Lit(W_and), Ws, Lit(W_analysis)>>],
    [tag |-> "business",
     prefix |-> ItemPrefix(<<"1">>),
     core |-> <<Lit(W_business)>>],
    [tag |-> "financial_statements",
     prefix |-> ItemPrefix(<<"8">>),
     core |-> <<Lit(W_financial), Ws, Lit(W_statements)>>],
    [tag |-> "market_risk",
     prefix |-> ItemPrefix(<<"7","a">>),
     core |-> <<Lit(W_quantitative), Ws, Lit(W_and), Ws, Lit(W_qualitative), Ws,
                Lit(W_disclosures), Ws, Lit(W_about), Ws, Lit(W_market), Ws,
                Lit(W_risk)>>] >>

RECURSIVE IdentifyFrom(_, _)
\* the for loop of _identify_section from table entry k on
IdentifyFrom(s, k) ==
    IF k > Len(section_patterns) THEN "other"
    ELSE IF re_search(section_patterns[k], s) THEN section_patterns[k].tag
    ELSE IdentifyFrom(s, k + 1)

RECURSIVE IdentifyLastFrom(_, _, _)
\* _identify_section without the early return: the last matching entry wins
IdentifyLastFrom(s, k, found) ==
    IF k > Len(section_patterns) THEN found
    ELSE IdentifyLastFrom(s, k + 1,
                          IF re_search(section_patterns[k], s)
                          THEN section_patterns[k].tag ELSE found)

identify_section_last(s) == IdentifyLastFrom(s, 1, "other")

\* SECDocumentProcessor._identify_section
identify_section(s) == IdentifyFrom(s, 1)

RECURSIVE SplitLoop(_, _, _, _, _)
\* the for loop of _split_into_sections from line k on, and the final emit
SplitLoop(lines, k, secs, current_text, current_type) ==
    IF k > Len(lines)
    THEN IF current_text # <<>>
         THEN Append(secs, [text |-> current_text, type |-> current_type])
         ELSE secs
    ELSE LET section_type == identify_section(lines[k]) IN
         IF section_type # "other"
         THEN SplitLoop(lines, k + 1,
                        IF current_text # <<>>
                        THEN Append(secs, [text |-> current_text, type |-> current_type])
                        ELSE secs,
                        lines[k], section_type)
         ELSE SplitLoop(lines, k + 1, secs,
                        current_text \o <<"\n">> \o lines[k], current_type)

\* _split_into_sections without the emit that follows the loop
split_into_sections_noflush(s) ==
    LET r == SplitLoop(SplitLines(s), 1, <<>>, <<>>, "other")
    IN  SubSeq(r, 1, Len(r) - 1)

\* SECDocumentProcessor._split_into_sections
split_into_sections(s) == SplitLoop(SplitLines(s), 1, <<>>, <<>>, "other")

(***************************************************************************)
(* Inputs of the classifier and of the segmenter.                          *)
(***************************************************************************)
L_RiskHeader == <<"I","t","e","m"," ","1","A","."," ","R","i","s","k"," ","F","a","c","t","o","r","s">>
L_WeFace == <<"W","e"," ","f","a","c","e"," ","r","i","s","k","s",".">>
L_MgmtHeader == <<"I","t","e","m"," ","7","."," ","M","a","n","a","g","e","m","e","n","t","'","s"," ","D","i","s","c","u","s","s","i","o","n">>
L_Results == <<"R","e","s","u","l","t","s"," ","i","m","p","r","o","v","e","d",".">>
L_MdaUpper == <<"M","D","&","A",":"," ","M","A","N","A","G","E","M","E","N","T","S"," "," ","D","I","S","C","U","S","S","I","O","N","A","N","D"," ","A","N","A","L","Y","S","I","S">>
L_Empty == <<>>

P_RiskFactors == <<"R","i","s","k","\t","F","a","c","t","o","r","s">>
P_Business == <<"o","u","r"," ","B","U","S","I","N","E","S","S">>
P_Financial == <<"F","i","n","a","n","c","i","a","l","S","t","a","t","e","m","e","n","t","s">>
P_Mda == <<"M","a","n","a","g","e","m","e","n","t"," ","D","i","s","c","u","s","s","i","o","n"," ","a","n","d"," ","A","n","a","l","y","s","i","s">>
P_MarketRisk == <<"Q","u","a","n","t","i","t","a","t","i","v","e"," ","a","n","d"," ","Q","u","a","l","i","t","a","t","i","v","e"," ","D","i","s","c","l","o","s","u","r","e","s"," ","a","b","o","u","t"," ","M","a","r","k","e","t"," ","R","i","s","k">>
P_Item1 == <<"I","t","e","m"," ","1",".">>
P_Risks == <<"r","i","s","k","s"," ","f","a","c","t","o","r">>
P_Discussion == <<"M","a","n","a","g","e","m","e","n","t","'","s"," ","D","i","s","c","u","s","s","i","o","n">>

LinePool == {L_RiskHeader, L_WeFace, L_MgmtHeader, L_Results, L_MdaUpper, L_Empty}
PhrasePool == {P_RiskFactors, P_Business, P_Financial, P_Mda, P_MarketRisk,
               P_Item1, P_Risks, P_Discussion}

SeqsUpTo(S, n) == UNION {[1..m -> S] : m \in 0..n}

\* the example filing of four lines
ExampleFiling == Join(<<L_RiskHeader, L_WeFace, L_MgmtHeader, L_Results>>, <<"\n">>)

Texts == {Join(ls, <<"\n">>) : ls \in SeqsUpTo(LinePool, MaxLines)} \cup {ExampleFiling}
Lines == {Join(ps, <<" ">>) : ps \in SeqsUpTo(PhrasePool, MaxPhrases)}

(***************************************************************************)
(* Numbers.  A float is kept as mantissa * 10^exponent with a mantissa     *)
(* that is not a multiple of ten, so that two spellings of one value       *)
(* (1.50 and 1.5, 2000000 and 2 * 1e6) are the same number.                *)
(***************************************************************************)
DigitVal(c) ==
    CASE c = "0" -> 0 [] c = "1" -> 1 [] c = "2" -> 2 [] c = "3" -> 3 [] c = "4" -> 4
      [] c = "5" -> 5 [] c = "6" -> 6 [] c = "7" -> 7 [] c = "8" -> 8 [] c = "9" -> 9

RECURSIVE Canon(_, _)
Canon(n, x) ==
    IF n = 0 THEN [m |-> 0, x |-> 0]
    ELSE IF n % 10 = 0 THEN Canon(n \div 10, x + 1)
    ELSE [m |-> n, x |-> x]

RECURSIVE ParseDigits(_, _, _, _, _)
\* float(s) for s of the form \d+(\.\d+)?: the digits read so far as n, with
\* d of them after the point
ParseDigits(s, k, n, d, seenPoint) ==
    IF k > Len(s) THEN Canon(n, 0 - d)
    ELSE IF s[k] = "." THEN ParseDigits(s, k + 1, n, d, TRUE)
    ELSE ParseDigits(s, k + 1, 10 * n + DigitVal(s[k]), IF seenPoint THEN d + 1 ELSE d, seenPoint)

\* amount *= 10^e
Scale(v, e) == IF v.m = 0 THEN v ELSE [m |-> v.m, x |-> v.x + e]

\* float(s): the digits up to the last one that is not 0 are read as the
\* mantissa, the zeros after it and the place of the point give the exponent
ToFloat(s) ==
    LET digits == SelectSeq(s, LAMBDA c : c # ".")
        point == SelectSeq(Indices(s), LAMBDA k : s[k] = ".")
        d == IF point = <<>> THEN 0 ELSE Len(s) - point[1]
        nonzero == SelectSeq(Indices(digits), LAMBDA k : digits[k] # "0")
        last == IF nonzero = <<>> THEN 0 ELSE nonzero[Len(nonzero)]
    IN  Scale(ParseDigits(SubSeq(digits, 1, last), 1, 0, 0, FALSE), Len(digits) - last - d)


\* s.replace(',', '')
RemoveCommas(s) == SelectSeq(s, LAMBDA c : c # ",")

(***************************************************************************)
(* _extract_metrics.  Both expressions are matched case-sensitively.  In   *)
(* the currency expression everything after \d+ is optional, and in the    *)
(* percentage expression a shorter \d+ or \.\d+ leaves a digit or a point  *)
(* where \s*% must start, so the greedy match is the one re finds.         *)
(***************************************************************************)
RECURSIVE SkipDigits(_, _)
\* the position after the longest run of \d starting at i
SkipDigits(s, i) ==
    IF i <= Len(s) /\ IsDigit(s[i]) THEN SkipDigits(s, i + 1) ELSE i

\* \d{n} stands at position i
DigitsAt(s, i, n) ==
    /\ i + n - 1 <= Len(s)
    /\ \A k \in 0..(n - 1) : IsDigit(s[i + k])

\* the literal lit stands at position i of s (case-sensitive)
ExactAt(s, i, lit) ==
    /\ i + Len(lit) - 1 <= Len(s)
    /\ \A k \in 1..Len(lit) : s[i + k - 1] = lit[k]

RECURSIVE SkipGroups(_, _)
\* (?:,\d{3})* from position i
SkipGroups(s, i) ==
    IF i <= Len(s) /\ s[i] = "," /\ DigitsAt(s, i + 1, 3)
    THEN SkipGroups(s, i + 4)
    ELSE i

W_million == <<"m","i","l","l","i","o","n">>
W_billion == <<"b","i","l","l","i","o","n">>
W_trillion == <<"t","r","i","l","l","i","o","n">>

\* multiplier = {'million': 1e6, 'billion': 1e9, 'trillion': 1e12}
multiplier == << [word |-> W_million, exp |-> 6],
                 [word |-> W_billion, exp |-> 9],
                 [word |-> W_trillion, exp |-> 12] >>

\* the match of \$\s*(\d+(?:,\d{3})*(?:\.\d{2})?)\s*(million|billion|trillion)? at
\* position i: [ok, g1 (group 1), g2 (index into multiplier, 0 for None), end]
CurrencyMatch(s, i) ==
    LET a == SkipSpace(s, i + 1)
        b == SkipDigits(s, a)
        c == SkipGroups(s, b)
        d == IF c <= Len(s) /\ s[c] = "." /\ DigitsAt(s, c + 1, 2) THEN c + 3 ELSE c
        e == SkipSpace(s, d)
        w == {k \in 1..Len(multiplier) : ExactAt(s, e, multiplier[k].word)}
    IN  IF i <= Len(s) /\ s[i] = "$" /\ b > a
        THEN [ok |-> TRUE, g1 |-> SubSeq(s, a, d - 1),
              g2 |-> IF w = {} THEN 0 ELSE CHOOSE k \in w : TRUE,
              end |-> IF w = {} THEN e ELSE e + Len(multiplier[CHOOSE k \in w : TRUE].word)]
        ELSE [ok |-> FALSE, g1 |-> <<>>, g2 |-> 0, end |-> i]

\* the body of the for loop over currency_matches
CurrencyAmount(mt) ==
    LET amount == ToFloat(RemoveCommas(mt.g1))
    IN  IF mt.g2 # 0 THEN Scale(amount, multiplier[mt.g2].exp) ELSE amount

\* the least element of a non-empty set of integers
Least(S) == CHOOSE k \in S : \A j \in S : k <= j

RECURSIVE CurrencyFrom(_, _)
\* re.finditer over the currency expression from position i on: the leftmost
\* match, then the matches after its end
CurrencyFrom(s, i) ==
    LET starts == {k \in i..Len(s) : CurrencyMatch(s, k).ok} IN
    IF starts = {} THEN <<>>
    ELSE LET mt == CurrencyMatch(s, Least(starts)) IN
         <<CurrencyAmount(mt)>> \o CurrencyFrom(s, mt.end)

\* the match of (\d+(?:\.\d+)?)\s*% at position i: [ok, g1, end]
PercentMatch(s, i) ==
    LET b == SkipDigits(s, i)
        c == IF b <= Len(s) /\ s[b] = "." /\ SkipDigits(s, b + 1) > b + 1
             THEN SkipDigits(s, b + 1) ELSE b
        e == SkipSpace(s, c)
    IN  IF b > i /\ e <= Len(s) /\ s[e] = "%"
        THEN [ok |-> TRUE, g1 |-> SubSeq(s, i, c - 1), end |-> e + 1]
        ELSE [ok |-> FALSE, g1 |-> <<>>, end |-> i]

RECURSIVE PercentFrom(_, _)
\* re.finditer over the percentage expression from position i on
PercentFrom(s, i) ==
    LET starts == {k \in i..Len(s) : PercentMatch(s, k).ok} IN
    IF starts = {} THEN <<>>
    ELSE LET mt == PercentMatch(s, Least(starts)) IN
         <<ToFloat(mt.g1)>> \o PercentFrom(s, mt.end)

\* SECDocumentProcessor._extract_metrics
extract_metrics(s) ==
    [currency_amounts |-> CurrencyFrom(s, 1), percentages |-> PercentFrom(s, 1)]

T_1p5 == <<"$","1",".","5">>
T_million == <<"m","i","l","l","i","o","n">>
T_grouped == <<"$","1",",","2","3","4",".","5","0">>
T_billion == <<"b","i","l","l","i","o","n","s">>
T_12p3pct == <<"1","2",".","3","%">>
T_dollar == <<"$">>
T_2000 == <<"2","0","0","0">>
T_Trillion == <<"T","r","i","l","l","i","o","n">>
T_pct == <<"%">>
T_3p25trillion == <<"$","3",".","2","5","t","r","i","l","l","i","o","n">>

TokenPool == {T_1p5, T_million, T_grouped, T_billion, T_12p3pct, T_dollar, T_2000,
              T_Trillion, T_pct, T_3p25trillion}

\* "$1.5 million in revenue and a 12.3% increase"
ExampleMetricText == <<"$","1",".","5"," ","m","i","l","l","i","o","n"," ","i","n"," ","r","e","v","e","n","u","e"," ","a","n","d"," ","a"," ","1","2",".","3","%"," ","i","n","c","r","e","a","s","e">>

MetricTexts == {Join(ts, <<" ">>) : ts \in SeqsUpTo(TokenPool, MaxTokens)} \cup {ExampleMetricText}

(***************************************************************************)
(* Python values of the filter language: None, a string, a list and a dict *)
(* (the sequence of its (key, value) items in insertion order).            *)
(***************************************************************************)
None == <<"none">>
StrV(x) == <<"str", x>>
ListV(items) == <<"list", items>>
DictV(items) == <<"dict", items>>

IsDict(v) == v[1] = "dict"
Items(v) == v[2]

\* key in d
HasKey(d, key) == \E k \in 1..Len(Items(d)) : Items(d)[k][1] = key

\* d[key]
Get(d, key) == Items(d)[CHOOSE k \in 1..Len(Items(d)) : Items(d)[k][1] = key][2]

\* the truth value of a dict or None: `not filter_metadata`
Falsy(v) == v = None \/ (IsDict(v) /\ Len(Items(v)) = 0)

\* Condition with every $in list collapsed to its first value
ConditionFirstOnly(key, value) ==
    IF IsDict(value) /\ HasKey(value, "$in")
    THEN DictV(<< <<"$or", ListV([k \in 1..Min(1, Len(Items(Get(value, "$in")))) |->
                                     DictV(<< <<key, Items(Get(value, "$in"))[k]>> >>)])>> >>)
    ELSE DictV(<< <<key, value>> >>)

\* the body of the for loop of _build_where_clause: the condition for one item
Condition(key, value) ==
    IF IsDict(value) /\ HasKey(value, "$in")
    THEN DictV(<< <<"$or", ListV([k \in 1..Len(Items(Get(value, "$in"))) |->
                                     DictV(<< <<key, Items(Get(value, "$in"))[k]>> >>)])>> >>)
    ELSE DictV(<< <<key, value>> >>)

\* VectorStore._build_where_clause
build_where_clause(filter_metadata) ==
    IF Falsy(filter_metadata) THEN None
    ELSE LET conditions == [k \in 1..Len(Items(filter_metadata)) |->
                               Condition(Items(filter_metadata)[k][1],
                                         Items(filter_metadata)[k][2])]
         IN  IF Len(conditions) = 1 THEN conditions[1]
             ELSE DictV(<< <<"$and", ListV(conditions)>> >>)

FieldNames == {"ticker", "filing_type", "section"}
Scalars == {StrV("AAPL"), StrV("10-K")}
InLists == {ListV(<<>>), ListV(<<StrV("AAPL")>>), ListV(<<StrV("AAPL"), StrV("MSFT")>>),
            ListV(<<StrV("MSFT"), StrV("AAPL")>>)}
FieldValues ==
    Scalars \cup {DictV(<< <<"$in", l>> >>) : l \in InLists}
            \cup {DictV(<< <<"$ne", StrV("AAPL")>> >>)}

\* a dict has each key once
DistinctKeys(items) ==
    \A i, j \in 1..Len(items) : i # j => items[i][1] # items[j][1]

Filters ==
    {None} \cup {DictV(items) : items \in
                    {fs \in SeqsUpTo(FieldNames \X FieldValues, MaxFields) : DistinctKeys(fs)}}

(***************************************************************************)
(* str() of the metadata values.                                           *)
(***************************************************************************)
DigitSeq == <<"0","1","2","3","4","5","6","7","8","9">>

RECURSIVE IntDigits(_)
\* str(n) for an int n >= 0
IntDigits(n) ==
    IF n < 10 THEN <<DigitSeq[n + 1]>>
    ELSE IntDigits(n \div 10) \o <<DigitSeq[(n % 10) + 1]>>

\* n as at least two digits
TwoDigits(n) == IF n < 10 THEN <<"0">> \o IntDigits(n) ELSE IntDigits(n)

\* str(x) of a float x >= 0: positional notation when the decimal point lies
\* within 16 digits to the right and 3 zeros to the left of the first digit,
\* exponent notation otherwise
FloatStr(v) ==
    LET ds == IntDigits(v.m)
        decpt == Len(ds) + v.x
        mant == IF Len(ds) = 1 THEN ds ELSE <<ds[1]>> \o <<".">> \o Tail(ds)
    IN  IF v.m = 0 THEN <<"0", ".", "0">>
        ELSE IF decpt > 16 THEN mant \o <<"e", "+">> \o TwoDigits(decpt - 1)
        ELSE IF decpt < -3 THEN mant \o <<"e", "-">> \o TwoDigits(1 - decpt)
        ELSE IF v.x >= 0 THEN ds \o Pad("0", v.x) \o <<".", "0">>
        ELSE IF decpt > 0 THEN SubSeq(ds, 1, decpt) \o <<".">> \o SubSeq(ds, decpt + 1, Len(ds))
        ELSE <<"0", ".">> \o Pad("0", 0 - decpt) \o ds

\* ','.join(map(str, values))
JoinFloats(values) == Join([k \in 1..Len(values) |-> FloatStr(values[k])], <<",">>)

\* str(datetime(y, m, d))
DateStr(date) ==
    IntDigits(date.y) \o <<"-">> \o TwoDigits(date.m) \o <<"-">> \o TwoDigits(date.d)
        \o <<" ","0","0",":","0","0",":","0","0">>

(***************************************************************************)
(* _clean_text.                                                            *)
(***************************************************************************)
\* every run of whitespace of s as one space
Collapse(s) ==
    LET first == SelectSeq(Indices(s), LAMBDA k : ~IsSpace(s[k]) \/ k = 1 \/ ~IsSpace(s[k - 1]))
    IN  [i \in 1..Len(first) |-> IF IsSpace(s[first[i]]) THEN " " ELSE s[first[i]]]

\* s.strip() of a text whose whitespace runs are single spaces
Strip1(s) ==
    LET a == IF Len(s) > 0 /\ s[1] = " " THEN 2 ELSE 1
        b == IF Len(s) > 0 /\ s[Len(s)] = " " THEN Len(s) - 1 ELSE Len(s)
    IN  SubSeq(s, a, b)

\* ' '.join(text.split()), and re.sub(r'\s+', ' ', text).strip()
NormalizeSpace(s) == Strip1(Collapse(s))

\* the characters [\w\s\.,;:\-\(\)\'\"$%] that _clean_text keeps
Allowed(c) ==
    \/ IsWord(c)
    \/ IsSpace(c)
    \/ c \in {".", ",", ";", ":", "-", "(", ")", "'", "\"", "$", "%"}

\* SECDocumentProcessor._clean_text
clean_text(s) ==
    LET t1 == NormalizeSpace(s)
        t2 == [k \in 1..Len(t1) |-> IF Allowed(t1[k]) THEN t1[k] ELSE " "]
    IN  NormalizeSpace(t2)

(***************************************************************************)
(* process_document.  self.text_splitter is langchain's                    *)
(* RecursiveCharacterTextSplitter, a library outside the repository: its   *)
(* split_text is modelled as cutting a non-empty text into k consecutive   *)
(* non-empty windows, k chosen by the environment, and an empty text into  *)
(* no window.                                                              *)
(***************************************************************************)
split_text(cleaned_text, k) ==
    LET n == Len(cleaned_text)
        parts == Min(k, n)
    IN  [i \in 1..parts |->
            SubSeq(cleaned_text, ((i - 1) * n) \div parts + 1, (i * n) \div parts)]

\* the chunk dict with chunk_index counted from 1
ChunkDictOneBased(doc, section_type, i, text_chunks) ==
    LET chunk == text_chunks[i + 1]
        m == extract_metrics(chunk)
    IN  [text |-> chunk,
         metadata |->
            [filing_id |-> doc.filing_id,
             company_name |-> doc.company_name,
             ticker |-> doc.ticker,
             filing_type |-> doc.filing_type,
             filing_date |-> DateStr(doc.filing_date),
             section |-> section_type,
             chunk_index |-> i + 1,
             total_chunks |-> Len(text_chunks),
             currency_amounts |-> JoinFloats(m.currency_amounts),
             percentages |-> JoinFloats(m.percentages),
             has_metrics |-> IF Len(m.currency_amounts) > 0 \/ Len(m.percentages) > 0
                             THEN "true" ELSE "false",
             metrics_summary |-> <<>>]]

\* the dict appended to chunks for chunk number i (0-based) of text_chunks
ChunkDict(doc, section_type, i, text_chunks) ==
    LET chunk == text_chunks[i + 1]
        m == extract_metrics(chunk)
    IN  [text |-> chunk,
         metadata |->
            [filing_id |-> doc.filing_id,
             company_name |-> doc.company_name,
             ticker |-> doc.ticker,
             filing_type |-> doc.filing_type,
             filing_date |-> DateStr(doc.filing_date),
             section |-> section_type,
             chunk_index |-> i,
             total_chunks |-> Len(text_chunks),
             currency_amounts |-> JoinFloats(m.currency_amounts),
             percentages |-> JoinFloats(m.percentages),
             has_metrics |-> IF Len(m.currency_amounts) > 0 \/ Len(m.percentages) > 0
                             THEN "true" ELSE "false",
             metrics_summary |-> <<>>]]

\* the chunks of one section
SectionChunks(doc, section, k) ==
    LET text_chunks == split_text(clean_text(section.text), k)
    IN  [i \in 1..Len(text_chunks) |-> ChunkDict(doc, section.type, i - 1, text_chunks)]

RECURSIVE ChunksFrom(_, _, _, _)
\* the loop over sections from section j on; ks[j] is the splitter's choice
ChunksFrom(doc, secs, ks, j) ==
    IF j > Len(secs) THEN <<>>
    ELSE SectionChunks(doc, secs[j], ks[j]) \o ChunksFrom(doc, secs, ks, j + 1)

\* SECDocumentProcessor.process_document
process_document(doc, ks) ==
    IF Len(doc.document_text) > 0
    THEN ChunksFrom(doc, split_into_sections(doc.document_text), ks, 1)
    ELSE <<>>

D_Metrics == Join(<<P_Business, T_1p5, T_million, T_12p3pct>>, <<" ">>)
D_Grouped == Join(<<T_grouped, T_billion>>, <<" ">>)
D_Hash == <<"#", " ", "&">>

DocLinePool == {L_RiskHeader, D_Metrics, D_Grouped, D_Hash}
DocTexts == {Join(ls, <<"\n">>) : ls \in SeqsUpTo(DocLinePool, MaxDocLines)}

Documents ==
    {[filing_id |-> id, company_name |-> "Acme", ticker |-> "AAPL",
      filing_type |-> "10-K", filing_date |-> [y |-> 2024, m |-> 1, d |-> 31],
      document_text |-> t] : id \in {<<"F","1">>, <<"F","2">>}, t \in DocTexts}

NoDocument ==
    [filing_id |-> <<>>, company_name |-> "", ticker |-> "", filing_type |-> "",
     filing_date |-> [y |-> 0, m |-> 0, d |-> 0], document_text |-> <<>>]

(***************************************************************************)
(* _process_results.  A result envelope is {"documents": [[...]],          *)
(* "metadatas": [[...]]}.  A metadata dict is a record; its optional key    *)
(* metrics_summary is <<>> when absent and <<c, p>> for the string          *)
(* "Found c currency amounts and p percentage values".                     *)
(***************************************************************************)
\* the length of the deduplication signature, doc[:100]
SigLen == 100

\* s.split(',') with the empty items kept
AllItems(s) == SplitOn(s, ",")

\* [x for x in s.split(',') if x]
NonEmptyItems(s) == SelectSeq(SplitOn(s, ","), LAMBDA x : x # <<>>)

\* the metrics branch of the loop body: metadata['metrics_summary'] = f"Found ..."
Annotate(metadata) ==
    IF metadata.has_metrics = "true"
    THEN LET currency_amounts == [k \in 1..Len(NonEmptyItems(metadata.currency_amounts)) |->
                                     ToFloat(NonEmptyItems(metadata.currency_amounts)[k])]
             percentages == [k \in 1..Len(NonEmptyItems(metadata.percentages)) |->
                                ToFloat(NonEmptyItems(metadata.percentages)[k])]
         IN  [metadata EXCEPT !.metrics_summary = <<Len(currency_amounts), Len(percentages)>>]
    ELSE metadata

RECURSIVE ProcLoopNoDedup(_, _, _, _, _, _)
\* the loop without the seen_contents test: every pair is taken as new
ProcLoopNoDedup(docs, metas, k, processed, seen_contents, lim) ==
    IF k > Min(Len(docs), Len(metas)) THEN [processed |-> processed, metas |-> metas]
    ELSE LET metadata == Annotate(metas[k])
             processed2 == Append(processed, <<docs[k], metadata>>)
             metas2 == [metas EXCEPT ![k] = metadata]
         IN  IF Len(processed2) >= lim
             THEN [processed |-> processed2, metas |-> metas2]
             ELSE ProcLoopNoDedup(docs, metas2, k + 1, processed2, seen_contents, lim)

RECURSIVE ProcLoop(_, _, _, _, _, _)
\* the for loop of _process_results from pair k of zip(docs, metas) on:
\* the processed list and the metadata list as the loop leaves it
ProcLoop(docs, metas, k, processed, seen_contents, lim) ==
    IF k > Min(Len(docs), Len(metas)) THEN [processed |-> processed, metas |-> metas]
    ELSE LET content_sig == Prefix(docs[k], SigLen)
             fresh == content_sig \notin seen_contents
             metadata == IF fresh THEN Annotate(metas[k]) ELSE metas[k]
             processed2 == IF fresh THEN Append(processed, <<docs[k], metadata>>)
                           ELSE processed
             metas2 == [metas EXCEPT ![k] = metadata]
         IN  IF Len(processed2) >= lim
             THEN [processed |-> processed2, metas |-> metas2]
             ELSE ProcLoop(docs, metas2, k + 1, processed2,
                           seen_contents \cup {content_sig}, lim)

EmptyEnvelope == [documents |-> << <<>> >>, metadatas |-> << <<>> >>]

\* the outcome of a call that raises: no value is returned, the argument is
\* left as it was
Raise(exception, results) ==
    [out |-> [error |-> exception], arg |-> results, raised |-> exception]

\* VectorStore._process_results: the envelope returned (out), the argument as
\* the call leaves it (arg) and the exception raised ("none" when it returns).
\* An envelope is a dict: a key it lacks is a field outside its DOMAIN, and
\* subscripting with it raises KeyError; [0] on an empty list raises IndexError.
process_results(results, lim) ==
    IF "documents" \notin DOMAIN results THEN Raise("KeyError", results)
    ELSE IF Len(results.documents) = 0 \/ Len(results.documents[1]) = 0
    THEN [out |-> EmptyEnvelope, arg |-> results, raised |-> "none"]
    ELSE IF "metadatas" \notin DOMAIN results THEN Raise("KeyError", results)
    ELSE IF Len(results.metadatas) = 0 THEN Raise("IndexError", results)
    ELSE LET r == ProcLoop(results.documents[1], results.metadatas[1], 1, <<>>, {}, lim)
         IN  [out |-> [documents |-> << [k \in 1..Len(r.processed) |-> r.processed[k][1]] >>,
                       metadatas |-> << [k \in 1..Len(r.processed) |-> r.processed[k][2]] >>],
              arg |-> [results EXCEPT !.metadatas[1] = r.metas],
              raised |-> "none"]

\* search handing the engine's envelope back as it came
search_result_raw(results, lim) == [out |-> results, arg |-> results, raised |-> "none"]

\* the result of search: results -> self._process_results(results, limit)
search_result(results, lim) == process_results(results, lim)

\* n_results=limit * 2
n_results(lim) == lim * 2

(***************************************************************************)
(* The records the vector engine may hold and return.                      *)
(***************************************************************************)
Meta(section, has, cur, pct) ==
    [filing_id |-> <<"F","1">>, company_name |-> "Acme", ticker |-> "AAPL",
     filing_type |-> "10-K", filing_date |-> DateStr([y |-> 2024, m |-> 1, d |-> 31]),
     section |-> section,
     chunk_index |-> 0, total_chunks |-> 1,
     currency_amounts |-> cur, percentages |-> pct, has_metrics |-> has,
     metrics_summary |-> <<>>]

\* 101 characters; the same first 100 as R_A2
R_A == [text |-> Pad("a", 100) \o <<"x">>,
        metadata |-> Meta("risk_factors", "true",
                          <<"1",".","0">>, <<"1","2",".","3",",","7",".","0">>)]
R_A2 == [text |-> Pad("a", 100) \o <<"y">>,
         metadata |-> Meta("risk_factors", "false", <<>>, <<>>)]
\* exactly 100 characters
R_B == [text |-> Pad("b", 100),
        metadata |-> Meta("business", "true",
                          <<"5","0","0","0","0","0","0",".","0",",","2",".","5">>, <<>>)]
\* shorter than the signature
R_S == [text |-> <<"a","a">>, metadata |-> Meta("other", "false", <<>>, <<>>)]

RecordPool == {R_A, R_A2, R_B, R_S}

Envelope(rs) ==
    [documents |-> << [k \in 1..Len(rs) |-> rs[k].text] >>,
     metadatas |-> << [k \in 1..Len(rs) |-> rs[k].metadata] >>]

\* what collection.query may return for n results asked: at most n records
EngineAnswers(n) == {Envelope(rs) : rs \in SeqsUpTo(RecordPool, Min(n, MaxRaw))}

\* envelopes that are not a documents list and a metadatas list of one inner
\* list each, the two inner lists of equal length
MalformedEnvelopes ==
    {[metadatas |-> << <<>> >>],
     [documents |-> <<>>],
     [documents |-> << <<R_S.text>> >>],
     [documents |-> << <<R_S.text>> >>, metadatas |-> <<>>],
     [documents |-> << <<R_S.text, R_B.text>> >>, metadatas |-> << <<R_S.metadata>> >>]}

\* the envelopes _process_results is applied to directly
Envelopes ==
    EngineAnswers(MaxRaw) \cup {[documents |-> <<>>, metadatas |-> <<>>]}
        \cup MalformedEnvelopes

SearchFilters ==
    {None,
     DictV(<< <<"ticker", StrV("AAPL")>> >>),
     DictV(<< <<"ticker", DictV(<< <<"$in", ListV(<<StrV("AAPL"), StrV("MSFT")>>)>> >>)>>,
              <<"filing_type", StrV("10-K")>> >>),
     DictV(<< <<"ticker", DictV(<< <<"$ne", StrV("AAPL")>> >>)>> >>),
     DictV(<<>>)}

(***************************************************************************)
(* add_documents.                                                          *)
(***************************************************************************)
\* f"{doc['metadata']['filing_id']}_{doc['metadata'].get('chunk_index', 0)}"
DocId(doc) == doc.metadata.filing_id \o <<"_">> \o IntDigits(doc.metadata.chunk_index)

\* add_documents with the last chunk left out of the three lists
add_call_short(documents) ==
    [documents |-> [k \in 1..(Len(documents) - 1) |-> documents[k].text],
     metadatas |-> [k \in 1..(Len(documents) - 1) |-> documents[k].metadata],
     ids |-> [k \in 1..(Len(documents) - 1) |-> DocId(documents[k])]]

\* the arguments of self.collection.add(documents=texts, metadatas=metadatas, ids=ids)
add_call(documents) ==
    [documents |-> [k \in 1..Len(documents) |-> documents[k].text],
     metadatas |-> [k \in 1..Len(documents) |-> documents[k].metadata],
     ids |-> [k \in 1..Len(documents) |-> DocId(documents[k])]]

\* VectorStore.add_documents: an empty list returns at once; otherwise the
\* engine receives one add call, which returns or raises
add_documents(documents) ==
    /\ batches' = Append(batches, documents)
    /\ IF Len(documents) = 0
       THEN /\ addCalls' = addCalls
            /\ addStatus' = "ok"
       ELSE /\ addCalls' = Append(addCalls, add_call(documents))
            /\ addStatus' \in {"ok", "error"}

\* the chunk lists add_documents is called with directly
Batches == SeqsUpTo({R_A2, R_S}, MaxBatch)

(***************************************************************************)
(* Idle values of the variables a specification does not use.              *)
(***************************************************************************)
ClassifierIdle == line = <<>> /\ tag = "none"
SegmenterIdle == text = <<>> /\ sections = <<>> /\ segDone = FALSE
WhereIdle == filter = None /\ where = None /\ whereDone = FALSE
SearchIdle ==
    /\ op = "idle"
    /\ engineQuery = [calls |-> 0, n_results |-> 0, where |-> None]
    /\ raw = EmptyEnvelope
    /\ rawAfter = EmptyEnvelope
    /\ limit = 0
    /\ out = EmptyEnvelope
ProcIdle == document = NoDocument /\ chunks = <<>> /\ stage = "idle"
AddIdle == batches = <<>> /\ addCalls = <<>> /\ addStatus = "none"
MetricsIdle == mtext = <<>> /\ metrics = [currency_amounts |-> <<>>, percentages |-> <<>>] /\ mDone = FALSE

(***************************************************************************)
(* The Section Classifier applied to one line.                             *)
(***************************************************************************)
InitClassifier ==
    /\ line \in Lines
    /\ tag = "none"
    /\ SegmenterIdle
    /\ MetricsIdle
    /\ WhereIdle
    /\ SearchIdle
    /\ ProcIdle
    /\ AddIdle

IdentifySection ==
    /\ tag = "none"
    /\ tag' = identify_section(line)
    /\ UNCHANGED <<line, segVars, metVars, whereVars, searchVars, procVars, addVars>>

NextClassifier == IdentifySection

SpecClassifier == InitClassifier /\ [][NextClassifier]_vars

(***************************************************************************)
(* The Segmenter applied to one document text.                             *)
(***************************************************************************)
InitSegmenter ==
    /\ text \in Texts
    /\ sections = <<>>
    /\ segDone = FALSE
    /\ ClassifierIdle
    /\ MetricsIdle
    /\ WhereIdle
    /\ SearchIdle
    /\ ProcIdle
    /\ AddIdle

SplitIntoSections ==
    /\ ~segDone
    /\ sections' = split_into_sections(text)
    /\ segDone' = TRUE
    /\ UNCHANGED <<text, clsVars, metVars, whereVars, searchVars, procVars, addVars>>

NextSegmenter == SplitIntoSections

SpecSegmenter == InitSegmenter /\ [][NextSegmenter]_vars

(***************************************************************************)
(* The Metric Extractor applied to one text.                               *)
(***************************************************************************)
InitMetrics ==
    /\ mtext \in MetricTexts
    /\ metrics = [currency_amounts |-> <<>>, percentages |-> <<>>]
    /\ mDone = FALSE
    /\ ClassifierIdle
    /\ SegmenterIdle
    /\ WhereIdle
    /\ SearchIdle
    /\ ProcIdle
    /\ AddIdle

ExtractMetrics ==
    /\ ~mDone
    /\ metrics' = extract_metrics(mtext)
    /\ mDone' = TRUE
    /\ UNCHANGED <<mtext, clsVars, segVars, whereVars, searchVars, procVars, addVars>>

NextMetrics == ExtractMetrics

SpecMetrics == InitMetrics /\ [][NextMetrics]_vars

(***************************************************************************)
(* _build_where_clause applied to one filter.                              *)
(***************************************************************************)
InitWhere ==
    /\ filter \in Filters
    /\ where = None
    /\ whereDone = FALSE
    /\ ClassifierIdle
    /\ SegmenterIdle
    /\ MetricsIdle
    /\ SearchIdle
    /\ ProcIdle
    /\ AddIdle

BuildWhereClause ==
    /\ ~whereDone
    /\ where' = build_where_clause(filter)
    /\ whereDone' = TRUE
    /\ UNCHANGED <<filter, clsVars, segVars, metVars, searchVars, procVars, addVars>>

NextWhere == BuildWhereClause

SpecWhere == InitWhere /\ [][NextWhere]_vars

(***************************************************************************)
(* The read side of the vector store: search, and _process_results called  *)
(* on an envelope directly, one call from the idle store.  The engine is   *)
(* opaque: a query returns any sequence of at most n_results stored        *)
(* records, or raises.                                                     *)
(***************************************************************************)
InitSearch ==
    /\ SearchIdle
    /\ ClassifierIdle
    /\ SegmenterIdle
    /\ MetricsIdle
    /\ WhereIdle
    /\ ProcIdle
    /\ AddIdle

\* VectorStore.search, the engine answering
Search(f, lim) ==
    \E results \in EngineAnswers(n_results(lim)) :
        /\ op = "idle"
        /\ filter' = f
        /\ where' = build_where_clause(f)
        /\ whereDone' = TRUE
        /\ engineQuery' = [calls |-> engineQuery.calls + 1, n_results |-> n_results(lim),
                           where |-> where']
        /\ raw' = results
        /\ rawAfter' = search_result(results, lim).arg
        /\ out' = search_result(results, lim).out
        /\ limit' = lim
        /\ op' = IF search_result(results, lim).raised = "none" THEN "search"
                 ELSE "search_error"
        /\ UNCHANGED <<clsVars, segVars, metVars, procVars, addVars>>

\* VectorStore.search, the engine raising: the exception reaches the caller
SearchFails(f, lim) ==
    /\ op = "idle"
    /\ filter' = f
    /\ where' = build_where_clause(f)
    /\ whereDone' = TRUE
    /\ engineQuery' = [calls |-> engineQuery.calls + 1, n_results |-> n_results(lim),
                       where |-> where']
    /\ raw' = EmptyEnvelope
    /\ rawAfter' = EmptyEnvelope
    /\ out' = EmptyEnvelope
    /\ limit' = lim
    /\ op' = "search_error"
    /\ UNCHANGED <<clsVars, segVars, metVars, procVars, addVars>>

\* VectorStore._process_results on an envelope
ProcessResults(results, lim) ==
    /\ op = "idle"
    /\ engineQuery' = engineQuery
    /\ raw' = results
    /\ rawAfter' = process_results(results, lim).arg
    /\ out' = process_results(results, lim).out
    /\ limit' = lim
    /\ op' = IF process_results(results, lim).raised = "none" THEN "process"
             ELSE "process_error"
    /\ UNCHANGED <<clsVars, segVars, metVars, whereVars, procVars, addVars>>

NextSearch ==
    \/ \E f \in SearchFilters, lim \in 0..MaxLimit : Search(f, lim)
    \/ \E f \in SearchFilters, lim \in 0..MaxLimit : SearchFails(f, lim)
    \/ \E results \in Envelopes, lim \in 0..MaxLimit : ProcessResults(results, lim)

SpecSearch == InitSearch /\ [][NextSearch]_vars

(***************************************************************************)
(* The write side: process_document on one filing.                         *)
(***************************************************************************)
Init ==
    /\ ProcIdle
    /\ ClassifierIdle
    /\ SegmenterIdle
    /\ MetricsIdle
    /\ WhereIdle
    /\ SearchIdle
    /\ AddIdle

ProcessDocument(doc) ==
    /\ stage = "idle"
    /\ \E ks \in [1..Len(split_into_sections(doc.document_text)) -> 1..MaxChunks] :
          chunks' = process_document(doc, ks)
    /\ document' = doc
    /\ stage' = "processed"
    /\ UNCHANGED <<clsVars, segVars, metVars, whereVars, searchVars, addVars>>

\* self.vector_store.add_documents(chunks) on the chunks of the filing
AddChunks ==
    /\ stage = "processed"
    /\ add_documents(chunks)
    /\ stage' = "added"
    /\ UNCHANGED <<document, chunks, clsVars, segVars, metVars, whereVars, searchVars>>

Next ==
    \/ \E doc \in Documents : ProcessDocument(doc)
    \/ AddChunks

Spec == Init /\ [][Next]_vars

(***************************************************************************)
(* The round trip of a filing: process_document, add_documents, then a     *)
(* search that the engine answers from what it was given.  The engine is   *)
(* opaque: its answer is any sequence of at most n_results of the chunks   *)
(* it received, each at most once.                                         *)
(***************************************************************************)
\* filings of two lines: two equal sections with metrics, a section with
\* one amount, a section without metrics before one with, and a section
\* with two amounts and a percentage
RoundTripTexts ==
    {Join(<<D_Metrics, D_Metrics>>, <<"\n">>),
     Join(<<L_RiskHeader, D_Grouped>>, <<"\n">>),
     Join(<<L_RiskHeader, D_Metrics>>, <<"\n">>),
     Join(<<D_Metrics, D_Grouped>>, <<"\n">>)}

RoundTripDocuments ==
    {[filing_id |-> <<"F","1">>, company_name |-> "Acme", ticker |-> "AAPL",
      filing_type |-> "10-K", filing_date |-> [y |-> 2024, m |-> 1, d |-> 31],
      document_text |-> t] : t \in RoundTripTexts}

RECURSIVE StoredFrom(_, _)
\* the (text, metadata) records of the add calls from call c on
StoredFrom(calls, c) ==
    IF c > Len(calls) THEN <<>>
    ELSE [k \in 1..Len(calls[c].documents) |->
             [text |-> calls[c].documents[k], metadata |-> calls[c].metadatas[k]]]
         \o StoredFrom(calls, c + 1)

\* what collection.query may return for n results asked, from the records
\* the engine was given
StoredAnswers(n) ==
    LET stored == StoredFrom(addCalls, 1)
    IN  {Envelope([k \in 1..Len(ps) |-> stored[ps[k]]]) :
            ps \in {qs \in SeqsUpTo(1..Len(stored), Min(n, MaxRaw)) :
                       \A i, k \in 1..Len(qs) : i # k => qs[i] # qs[k]}}

InitRoundTrip ==
    /\ ProcIdle
    /\ ClassifierIdle
    /\ SegmenterIdle
    /\ MetricsIdle
    /\ WhereIdle
    /\ SearchIdle
    /\ AddIdle

\* VectorStore.search with no filter after the filing was added
SearchStored(lim) ==
    \E results \in StoredAnswers(n_results(lim)) :
        /\ stage = "added"
        /\ addStatus = "ok"
        /\ op = "idle"
        /\ filter' = None
        /\ where' = build_where_clause(None)
        /\ whereDone' = TRUE
        /\ engineQuery' = [calls |-> engineQuery.calls + 1, n_results |-> n_results(lim),
                           where |-> where']
        /\ raw' = results
        /\ rawAfter' = search_result(results, lim).arg
        /\ out' = search_result(results, lim).out
        /\ limit' = lim
        /\ op' = IF search_result(results, lim).raised = "none" THEN "search"
                 ELSE "search_error"
        /\ UNCHANGED <<clsVars, segVars, metVars, procVars, addVars>>

NextRoundTrip ==
    \/ \E doc \in RoundTripDocuments : ProcessDocument(doc)
    \/ AddChunks
    \/ \E lim \in 0..MaxLimit : SearchStored(lim)

SpecRoundTrip == InitRoundTrip /\ [][NextRoundTrip]_vars

(***************************************************************************)
(* add_documents called MaxAdds times on arbitrary chunk lists.            *)
(***************************************************************************)
InitAdd ==
    /\ AddIdle
    /\ ProcIdle
    /\ ClassifierIdle
    /\ SegmenterIdle
    /\ MetricsIdle
    /\ WhereIdle
    /\ SearchIdle

AddDocuments(documents) ==
    /\ Len(batches) < MaxAdds
    /\ add_documents(documents)
    /\ UNCHANGED <<procVars, clsVars, segVars, metVars, whereVars, searchVars>>

NextAdd == \E documents \in Batches : AddDocuments(documents)

SpecAdd == InitAdd /\ [][NextAdd]_vars

(***************************************************************************)
(* Properties.                                                             *)
(***************************************************************************)
RECURSIVE ConcatTexts(_)
\* the texts of the spans, concatenated in order
ConcatTexts(secs) ==
    IF Len(secs) = 0 THEN <<>> ELSE secs[1].text \o ConcatTexts(Tail(secs))

\* s without its whitespace characters
StripWs(s) == SelectSeq(s, LAMBDA c : ~IsSpace(c))

\* no line of s is classified as a section header
NoHeaders(s) ==
    \A k \in 1..Len(SplitLines(s)) : identify_section(SplitLines(s)[k]) = "other"

\* C3 (as stated): a text in which every line classifies as `other` is returned
\* as exactly one span, tagged `other`, whose text equals the input character
\* for character.
C3_SingleSpanEqualsInput ==
    (segDone /\ NoHeaders(text)) =>
        sections = <<[text |-> text, type |-> "other"]>>

\* C4 (as stated): the four-line example filing is segmented into exactly two
\* spans, risk_factors then management_discussion (`mda` in the code's table),
\* the second starting at the "Item 7. Management's Discussion" line.
C4_ExampleTwoSpans ==
    (segDone /\ text = ExampleFiling) =>
        /\ Len(sections) = 2
        /\ sections[1].type = "risk_factors"
        /\ sections[2].type \in {"management_discussion", "mda"}
        /\ Prefix(sections[2].text, Len(L_MgmtHeader)) = L_MgmtHeader

\* C5 (as stated): "$1.5 million in revenue and a 12.3% increase" yields the
\* currency sequence [1500000.0] (15 * 10^5) and the percentage sequence [12.3].
C5_ExampleMetrics ==
    (mDone /\ mtext = ExampleMetricText) =>
        /\ metrics.currency_amounts = <<[m |-> 15, x |-> 5]>>
        /\ metrics.percentages = <<[m |-> 123, x |-> -1]>>

\* the fixed priority order of the tags; `mda` is the code's name of the
\* management-discussion tag
TagOrder == <<"risk_factors", "mda", "business", "financial_statements", "market_risk">>

\* the pattern of tag t matches the line s, ignoring case
TagMatches(t, s) ==
    \E k \in 1..Len(section_patterns) :
        section_patterns[k].tag = t /\ re_search(section_patterns[k], s)

\* C6: the classifier returns exactly one tag for a line: the first tag, in the
\* order risk_factors, management discussion, business, financial_statements,
\* market_risk, whose pattern matches the line ignoring case, also when a later
\* tag's pattern matches too; and `other` when no pattern matches.
C6_FirstMatchWins ==
    tag # "none" =>
        \/ /\ tag = "other"
           /\ \A i \in 1..Len(TagOrder) : ~TagMatches(TagOrder[i], line)
        \/ \E i \in 1..Len(TagOrder) :
              /\ tag = TagOrder[i]
              /\ TagMatches(TagOrder[i], line)
              /\ \A j \in 1..(i - 1) : ~TagMatches(TagOrder[j], line)

\* C6 witness: a classified line that matches the patterns of two tags
C6_Witness ==
    /\ tag = "risk_factors"
    /\ TagMatches("business", line)
    /\ TagMatches("risk_factors", line)

\* a field value that is an "any of" mapping {"$in": [...]}
IsAnyOf(v) == IsDict(v) /\ Len(Items(v)) = 1 /\ Items(v)[1][1] = "$in"

\* a field value that is an exact-match scalar
IsExact(v) == v[1] = "str"

\* the clause the claim gives for one field
ClauseOf(key, v) ==
    IF IsAnyOf(v)
    THEN DictV(<< <<"$or", ListV([k \in 1..Len(Items(Items(v)[1][2])) |->
                                     DictV(<< <<key, Items(Items(v)[1][2])[k]>> >>)])>> >>)
    ELSE DictV(<< <<key, v>> >>)

\* every field of the filter f is an exact match or an "any of" list
Supported(f) ==
    /\ IsDict(f)
    /\ \A k \in 1..Len(Items(f)) : IsExact(Items(f)[k][2]) \/ IsAnyOf(Items(f)[k][2])

\* C7: a filter with one exact-match field is returned unchanged; a field with
\* an "any of" list becomes {"$or": [...]} with one exact-match clause per
\* listed value, in list order; a filter with two or more fields becomes
\* {"$and": [...]} with one translated clause per field, in field order.
C7_WhereClauseShape ==
    (whereDone /\ Supported(filter) /\ Len(Items(filter)) >= 1) =>
        LET fs == Items(filter) IN
        /\ (Len(fs) = 1 /\ IsExact(fs[1][2])) => where = filter
        /\ (Len(fs) = 1 /\ IsAnyOf(fs[1][2])) =>
              /\ Len(Items(where)) = 1
              /\ Items(where)[1][1] = "$or"
              /\ Len(Items(Items(where)[1][2])) = Len(Items(Items(fs[1][2])[1][2]))
              /\ where = ClauseOf(fs[1][1], fs[1][2])
        /\ Len(fs) >= 2 =>
              where = DictV(<< <<"$and", ListV([k \in 1..Len(fs) |->
                                                   ClauseOf(fs[k][1], fs[k][2])])>> >>)

\* C7 witness: a translated filter of two fields, one of them an "any of" list
\* of two values
C7_Witness ==
    /\ whereDone
    /\ Supported(filter)
    /\ Len(Items(filter)) = 2
    /\ \E k \in 1..2 : IsAnyOf(Items(filter)[k][2])
                        /\ Len(Items(Items(Items(filter)[k][2])[1][2])) = 2

\* C10: the Segmenter loses no content: the texts of the emitted spans,
\* concatenated in order, are the input text up to whitespace (every line, in
\* input order, each exactly once).
C10_NoContentLoss ==
    segDone => StripWs(ConcatTexts(sections)) = StripWs(text)

\* C10 witness: a segmented text of several spans that has lines outside any
\* header
C10_Witness ==
    /\ segDone
    /\ Len(sections) >= 2
    /\ \E k \in 1..Len(SplitLines(text)) :
          /\ SplitLines(text)[k] # <<>>
          /\ identify_section(SplitLines(text)[k]) = "other"

\* the deduplication signature of a result text: its first 100 characters
Sig(doc) == SubSeq(doc, 1, Min(100, Len(doc)))

\* C1 (as stated): for every raw envelope and every limit >= 0, limit = 0
\* included, _process_results returns at most `limit` results, and no two
\* returned texts have the same first 100 characters.
C1_AtMostLimitAndDistinct ==
    op \in {"search", "process"} =>
        LET docs == out.documents[1] IN
        /\ Len(docs) <= limit
        /\ \A i, k \in 1..Len(docs) : i # k => Sig(docs[i]) # Sig(docs[k])

\* C2 (as stated): the keys add_documents hands to the engine for the chunks
\* of one filing are pairwise distinct, also for a filing of several sections.
C2_KeysDistinct ==
    stage = "added" =>
        \A c \in 1..Len(addCalls) :
            \A i, k \in 1..Len(addCalls[c].ids) :
                i # k => addCalls[c].ids[i] # addCalls[c].ids[k]

\* the non-empty lists among the lists add_documents was called with
NonEmptyBatches == SelectSeq(batches, LAMBDA b : Len(b) > 0)

\* C8: an empty chunk list makes no engine call; a non-empty one makes exactly
\* one add call carrying all its chunks, the text, metadata and key sequences
\* of equal length and in input order: after any sequence of calls, failed
\* ones included, the engine has received each batch in full or not at all.
C8_WholeBatchOrNothing ==
    /\ Len(addCalls) = Len(NonEmptyBatches)
    /\ \A c \in 1..Len(addCalls) :
          LET call == addCalls[c]
              b == NonEmptyBatches[c]
          IN  /\ Len(call.documents) = Len(b)
              /\ Len(call.metadatas) = Len(b)
              /\ Len(call.ids) = Len(b)
              /\ \A i \in 1..Len(b) :
                    /\ call.documents[i] = b[i].text
                    /\ call.metadatas[i] = b[i].metadata
                    /\ Prefix(call.ids[i], Len(b[i].metadata.filing_id))
                          = b[i].metadata.filing_id

\* C8 witness: an empty call, and a call of two chunks whose engine call failed
C8_Witness ==
    /\ Len(batches) = 2
    /\ Len(batches[1]) = 0
    /\ Len(batches[2]) = 2
    /\ Len(addCalls) = 1
    /\ addStatus = "error"

\* C9 (as stated): search returns the engine's raw envelope unmodified.
C9_SearchReturnsRaw ==
    op = "search" => out = raw

\* the positions of the raw documents that are the first of their signature
FirstOfSig(docs) ==
    SelectSeq(Indices(docs), LAMBDA k : \A i \in 1..(k - 1) : Sig(docs[i]) # Sig(docs[k]))

\* the number of items of a comma-joined string
CountJoined(joined) ==
    IF Len(joined) = 0 THEN 0
    ELSE 1 + Len(SelectSeq(joined, LAMBDA c : c = ","))

\* C9 (amended): search returns the engine's envelope as _process_results
\* reconciles it: in engine order, the first result of each 100-character
\* signature, cut at `limit` results, each with the metadata the engine
\* returned plus a metrics_summary when has_metrics is "true"; nothing the
\* engine did not return is added.
C9_SearchReturnsReconciled ==
    op = "search" =>
        LET docs == raw.documents[1]
            metas == raw.metadatas[1]
            kept == FirstOfSig(docs)
            n == Min(limit, Len(kept))
        IN  /\ Len(out.documents) = 1
            /\ Len(out.metadatas) = 1
            /\ Len(out.documents[1]) = n
            /\ Len(out.metadatas[1]) = n
            /\ \A i \in 1..n :
                  /\ out.documents[1][i] = docs[kept[i]]
                  /\ out.metadatas[1][i] =
                        [metas[kept[i]] EXCEPT !.metrics_summary =
                            IF metas[kept[i]].has_metrics = "true"
                            THEN <<CountJoined(metas[kept[i]].currency_amounts),
                                   CountJoined(metas[kept[i]].percentages)>>
                            ELSE <<>>]

\* C9 witness: a search whose result differs from the engine's envelope by a
\* removed duplicate
C9_Witness ==
    /\ op = "search"
    /\ Len(raw.documents[1]) = 3
    /\ Len(out.documents[1]) = 2
    /\ limit = 2
    /\ Sig(raw.documents[1][1]) = Sig(raw.documents[1][2])

\* the raw envelope holds no returned document
NoDocuments(results) ==
    /\ "documents" \in DOMAIN results
    /\ (Len(results.documents) = 0 \/ Len(results.documents[1]) = 0)

\* the raw envelope lacks an entry, or its entries are not one inner list
\* each, of equal length
Malformed(results) ==
    \/ "documents" \notin DOMAIN results
    \/ "metadatas" \notin DOMAIN results
    \/ Len(results.documents) # 1
    \/ Len(results.metadatas) # 1
    \/ Len(results.documents[1]) # Len(results.metadatas[1])

\* C11 (as stated): for a raw envelope with no documents returned, and for any
\* malformed raw envelope, _process_results returns the empty result set and
\* raises no error.
C11_EmptyOrMalformedYieldsEmpty ==
    (op \in {"process", "process_error"} /\ (NoDocuments(raw) \/ Malformed(raw))) =>
        (op = "process" /\ out = EmptyEnvelope)

\* a filter search cannot serve: a mapping with no field, or with a field that
\* is neither an exact match nor an "any of" list (no filter at all, None, is
\* the unfiltered search the caller asked for)
Unsupported(f) == f # None /\ ~(Supported(f) /\ Len(Items(f)) >= 1)

\* C12 (as stated): a filter of an unsupported shape makes search fail before
\* any query reaches the engine: the engine receives no query, so the filter
\* is neither run as an unfiltered query nor passed on to the engine.
C12_UnsupportedFilterFailsFast ==
    (op \in {"search", "search_error"} /\ Unsupported(filter)) =>
        (op = "search_error" /\ engineQuery.calls = 0)

\* C13 (as stated): the emitted spans are maximal runs of one tag: every line
\* inside a span classifies to the span's tag, and no two consecutive spans
\* carry the same tag.
C13_MaximalRuns ==
    segDone =>
        /\ \A j \in 1..Len(sections) :
              \A k \in 1..Len(SplitLines(sections[j].text)) :
                  identify_section(SplitLines(sections[j].text)[k]) = sections[j].type
        /\ \A j \in 1..(Len(sections) - 1) : sections[j].type # sections[j + 1].type

\* C13, its second half alone: no two consecutive spans carry the same tag
C13_NoEqualNeighbours ==
    segDone => \A j \in 1..(Len(sections) - 1) : sections[j].type # sections[j + 1].type

\* the (doc, metadata) pairs of a raw envelope that zip() yields: the documents
\* that have a metadata beside them
RawDocs(results) ==
    IF NoDocuments(results) THEN <<>>
    ELSE Prefix(results.documents[1], Len(results.metadatas[1]))

\* C14: the output of _process_results is a subsequence of the raw order: of
\* each 100-character signature only the first occurrence is kept, the kept
\* results stand in their raw relative order, for limit >= 1 their number is
\* min(limit, number of distinct signatures), and no raw result after the
\* limit-th kept one is modified.
C14_FirstSeenInRawOrder ==
    (op \in {"process", "search"} /\ limit >= 1) =>
        LET docs == RawDocs(raw)
            kept == FirstOfSig(docs)
            n == Min(limit, Len(kept))
        IN  /\ Len(out.documents[1]) = n
            /\ Len(out.metadatas[1]) = n
            /\ \A i \in 1..n : out.documents[1][i] = docs[kept[i]]
            /\ \A i \in 1..n : out.metadatas[1][i] = rawAfter.metadatas[1][kept[i]]
            /\ rawAfter.documents = raw.documents
            /\ Len(kept) >= limit =>
                  \A k \in (kept[limit] + 1)..Len(docs) :
                      rawAfter.metadatas[1][k] = raw.metadatas[1][k]

\* C14 witness: _process_results with limit 2 on four raw results: the second
\* repeats the signature of the first and is dropped, the third is the second
\* kept one, and the fourth, whose has_metrics is "true", comes after it
C14_Witness ==
    /\ op = "process"
    /\ limit = 2
    /\ Len(RawDocs(raw)) = 4
    /\ Sig(raw.documents[1][1]) = Sig(raw.documents[1][2])
    /\ Sig(raw.documents[1][3]) # Sig(raw.documents[1][1])
    /\ raw.metadatas[1][4].has_metrics = "true"
    /\ Len(out.documents[1]) = 2
    /\ out.documents[1][2] = raw.documents[1][3]

\* the positions in chunks of the first chunk of each section: chunk_index 0
SectionStarts == SelectSeq(Indices(chunks), LAMBDA k : chunks[k].metadata.chunk_index = 0)

\* the spans of the document whose cleaned text is not empty
NonEmptySpans ==
    SelectSeq(split_into_sections(document.document_text),
              LAMBDA sec : clean_text(sec.text) # <<>>)

\* C15: every chunk process_document emits has chunk_index < total_chunks;
\* within one section the chunk_index values are 0, 1, ..., total_chunks - 1
\* in emission order, and total_chunks is the number of chunks emitted for
\* that section.
C15_ChunkIndexWithinTotal ==
    stage \in {"processed", "added"} =>
        /\ \A k \in 1..Len(chunks) :
              chunks[k].metadata.chunk_index < chunks[k].metadata.total_chunks
        /\ Len(SectionStarts) = Len(NonEmptySpans)
        /\ \A j \in 1..Len(SectionStarts) :
              LET first == SectionStarts[j]
                  last == IF j < Len(SectionStarts) THEN SectionStarts[j + 1] - 1
                          ELSE Len(chunks)
              IN  \A k \in first..last :
                      /\ chunks[k].metadata.chunk_index = k - first
                      /\ chunks[k].metadata.total_chunks = last - first + 1
                      /\ chunks[k].metadata.section = NonEmptySpans[j].type

\* C15 witness: a processed filing of two sections, one of them cut into two
\* chunks
C15_Witness ==
    /\ stage = "processed"
    /\ Len(SectionStarts) = 2
    /\ \E k \in 1..Len(chunks) : chunks[k].metadata.chunk_index = 1

\* the positions of the raw documents that repeat an earlier signature
Duplicates(docs) ==
    SelectSeq(Indices(docs), LAMBDA k : \E i \in 1..(k - 1) : Sig(docs[i]) = Sig(docs[k]))

\* C16: every retained result whose has_metrics flag is set carries a
\* metrics summary whose two counts are the number of currency amounts and of
\* percentage values _extract_metrics finds in that chunk (the counts survive
\* the comma-joined strings of the metadata); retained results without the
\* flag, and raw results dropped as duplicates, get no summary.
C16_SummaryCountsMatchExtractor ==
    (stage = "added" /\ op = "search") =>
        /\ \A i \in 1..Len(out.documents[1]) :
              LET found == extract_metrics(out.documents[1][i])
                  metadata == out.metadatas[1][i]
              IN  metadata.metrics_summary =
                      IF metadata.has_metrics = "true"
                      THEN <<Len(found.currency_amounts), Len(found.percentages)>>
                      ELSE <<>>
        /\ \A k \in 1..Len(RawDocs(raw)) :
              (\E d \in 1..Len(Duplicates(RawDocs(raw))) : Duplicates(RawDocs(raw))[d] = k)
                  => rawAfter.metadatas[1][k].metrics_summary = <<>>

\* C16 witness: a search over the chunks of an added filing that retains a
\* flagged result with two currency amounts and one percentage
C16_Witness ==
    /\ stage = "added"
    /\ op = "search"
    /\ Len(out.documents[1]) >= 1
    /\ out.metadatas[1][1].has_metrics = "true"
    /\ out.metadatas[1][1].metrics_summary = <<2, 1>>
    /\ Len(extract_metrics(out.documents[1][1]).currency_amounts) = 2

\* a search over the chunks of an added filing that drops a flagged raw
\* result as a duplicate of a retained one
C16_DroppedDuplicate ==
    /\ stage = "added"
    /\ op = "search"
    /\ Len(out.documents[1]) >= 1
    /\ Len(Duplicates(RawDocs(raw))) >= 1
    /\ raw.metadatas[1][Duplicates(RawDocs(raw))[1]].has_metrics = "true"

====
